---- MODULE Spec2Model ----
(***************************************************************************)
(* Wave Goodbye (project4.c): read a 44.1kHz 16-bit stereo WAVE file from  *)
(* stdin, apply the transforms named on the command line in order, write   *)
(* the result to stdout.                                                   *)
(*                                                                         *)
(* Reals are modelled exactly: a double is a pair [num, den] with den > 0  *)
(* a power of ten (the value of a decimal operand), and every (int) cast   *)
(* truncates the exact quotient toward zero.  Binary rounding of doubles   *)
(* is not modelled.  C arrays are 0-based, sequences 1-based: C index i is *)
(* element i + 1.                                                          *)
(***************************************************************************)
EXTENDS Integers, Sequences, FiniteSets, TLC

\* ------------------------------------------------------------ bounds
\* Largest number of samples per channel a buffer may hold in the model.
MaxSamples == 3
\* Largest number of command line tokens (flags and operands) after argv[0].
MaxArgc == 4

\* ------------------------------------------------- program constants
SampleRate == 44100
HeaderSize == 44
SHRT_MIN == -32768
SHRT_MAX == 32767

ERROR_COMMAND_LINE_USAGE  == "Usage: wave [[-r][-s factor][-f][-o delay][-i delay][-v scale][-e delay scale] < input > output"
ERROR_INSUFFICIENT_MEMORY == "Program out of memory"
ERROR_FILE_NOT_RIFF       == "File is not a RIFF file"
ERROR_BAD_FORMAT_CHUNK    == "Format chunk is corrupted"
ERROR_BAD_DATA_CHUNK      == "Data chunk is corrupted"
ERROR_NOT_STEREO          == "File is not stereo"
ERROR_INVALID_SAMPLE_RATE == "File does not use 44,100Hz sample rate"
ERROR_INVALID_SAMPLE_SIZE == "File does not have 16-bit samples"
ERROR_INVALID_FILE_SIZE   == "File size does not match size in header"
ERROR_INVALID_SPEED       == "A positive number must be supplied for the speed change"
ERROR_INVALID_TIME        == "A positive number must be supplied for the fade in and fade out time"
ERROR_INVALID_VOLUME      == "A positive number must be supplied for the volume scale"
ERROR_INVALID_ECHO        == "A positive number must be supplied for the echo delay and scale parameters"

\* --------------------------------------------------------- arithmetic
\* (int) x for the exact quotient x = a / b, b > 0: truncation toward zero.
Trunc(a, b) == IF a >= 0 THEN a \div b ELSE -((-a) \div b)

\* Conversion of an int to short: the low 16 bits, two's complement.
Wrap16(x) == ((x + 32768) % 65536) - 32768

RECURSIVE Pow10(_)
Pow10(k) == IF k = 0 THEN 1 ELSE 10 * Pow10(k - 1)

\* ----------------------------------------------------- command line
\* A token is a C string: the sequence of its characters, the terminating
\* NUL left out.  CharAt reads arg[i] (0-based), NUL at the end.
CharAt(arg, i) == IF i < Len(arg) THEN arg[i + 1] ELSE "NUL"

Digits == <<"0", "1", "2", "3", "4", "5", "6", "7", "8", "9">>
IsDigit(c) == \E d \in 1..10 : Digits[d] = c
DigitValue(c) == (CHOOSE d \in 1..10 : Digits[d] = c) - 1

\* parseArgument: the action code 0..6 of a flag, -1 where the code calls
\* failure(ERROR_COMMAND_LINE_USAGE).
ParseArgument(arg) ==
    IF CharAt(arg, 0) = "-"
    THEN LET c == CharAt(arg, 1)
             action == CASE c = "r" -> 0
                         [] c = "s" -> 1
                         [] c = "f" -> 2
                         [] c = "o" -> 3
                         [] c = "i" -> 4
                         [] c = "v" -> 5
                         [] c = "e" -> 6
                         [] OTHER   -> -1
         IN IF action /= -1 /\ CharAt(arg, 2) = "NUL" THEN action ELSE -1
    ELSE -1

\* atof on a string of digits with at most one '.': the digits read as an
\* integer over ten to the number of digits after the dot; "" and "." are 0.
RECURSIVE AtofDigits(_, _, _)
AtofDigits(arg, i, acc) ==
    IF i >= Len(arg) THEN acc
    ELSE IF CharAt(arg, i) = "." THEN AtofDigits(arg, i + 1, acc)
    ELSE AtofDigits(arg, i + 1, 10 * acc + DigitValue(CharAt(arg, i)))

RECURSIVE DotIndex(_, _)
DotIndex(arg, i) ==
    IF i >= Len(arg) THEN Len(arg)
    ELSE IF CharAt(arg, i) = "." THEN i ELSE DotIndex(arg, i + 1)

Atof(arg) ==
    LET dot == DotIndex(arg, 0)
        frac == IF dot >= Len(arg) THEN 0 ELSE Len(arg) - dot - 1
    IN [num |-> AtofDigits(arg, 0, 0), den |-> Pow10(frac)]

\* parseDouble's scan: TRUE where the loop runs to the end of the string,
\* FALSE where it returns -1 (a second dot, or a character that is neither
\* a digit nor a dot).
RECURSIVE FormOk(_, _, _)
FormOk(arg, i, hasDot) ==
    IF i >= Len(arg) THEN TRUE
    ELSE IF CharAt(arg, i) = "."
         THEN IF hasDot THEN FALSE ELSE FormOk(arg, i + 1, TRUE)
    ELSE IF ~IsDigit(CharAt(arg, i)) THEN FALSE
    ELSE FormOk(arg, i + 1, hasDot)

ParseDouble(arg) ==
    IF FormOk(arg, 0, FALSE) THEN Atof(arg) ELSE [num |-> -1, den |-> 1]

\* -------------------------------------------------------------- state
VARIABLES
    pc,          \* main's position: "start", "load", "args", "done", "failed", "crashed"
    err,         \* the message failure() printed, "" while none
    header,      \* *data.header
    stdin,       \* the data region of the input: [pattern, avail]
    inPos,       \* data bytes taken from stdin by readByte so far
    numSamples,  \* data.numSamples
    left,        \* data.left[0 .. numSamples-1]
    right,       \* data.right[0 .. numSamples-1]
    argi,        \* command line tokens consumed (main's i - 1 after the step)
    last,        \* the command main dispatched last: flag, operand tokens, parsed values
    prev,        \* buffer and header sizes when that command was dispatched, and the command before it
    out,         \* stdout: [hdr |-> the header written (at most one), data |-> the bytes after it]
    oob          \* the transforms that read or wrote a sample outside its allocation

vars == <<pc, err, header, stdin, inPos, numSamples, left, right, argi, last, prev, out, oob>>

\* ------------------------------------------------------------- header
\* The fields of WaveHeader (wave.h), the 4-byte tags as strings.
NoHeader ==
    [ID |-> "", size |-> 0, format |-> "",
     fmtID |-> "", fmtSize |-> 0, compression |-> 0, channels |-> 0,
     sampleRate |-> 0, byteRate |-> 0, blockAlign |-> 0, bitsPerSample |-> 0,
     dataID |-> "", dataSize |-> 0]

\* Declared data sizes: every byte count up to MaxSamples whole samples and
\* a partial one.
DataSizes == 0 .. (4 * MaxSamples + 3)

\* The headers a file may carry.  Each validated field takes the accepted
\* value and one other; size is the RIFF convention (file length - 8) or
\* the length of header and data together.
Headers ==
    { h \in [ID : {"RIFF", "RIFX"},
             size : { d + k : d \in DataSizes, k \in {HeaderSize - 8, HeaderSize} },
             format : {"WAVE"},
             fmtID : {"fmt ", "fact"},
             fmtSize : {16, 18},
             compression : {1, 3},
             channels : {2, 1},
             sampleRate : {SampleRate, 48000},
             byteRate : {176400},
             blockAlign : {4},
             bitsPerSample : {16, 8},
             dataID : {"data", "LIST"},
             dataSize : DataSizes] :
        h.size \in {h.dataSize + HeaderSize - 8, h.dataSize + HeaderSize} }

\* readHeader (wave.c): fills the header from the first bytes of stdin.
ReadHeader(h) == h

\* HeaderError with the channel count tested before the data chunk tag.
HeaderErrorStereoFirst(h) ==
    IF h.ID /= "RIFF" THEN ERROR_FILE_NOT_RIFF
    ELSE IF h.fmtID /= "fmt " \/ h.fmtSize /= 16 \/ h.compression /= 1
         THEN ERROR_BAD_FORMAT_CHUNK
    ELSE IF h.channels /= 2 THEN ERROR_NOT_STEREO
    ELSE IF h.dataID /= "data" THEN ERROR_BAD_DATA_CHUNK
    ELSE IF h.sampleRate /= 44100 THEN ERROR_INVALID_SAMPLE_RATE
    ELSE IF h.bitsPerSample /= 16 THEN ERROR_INVALID_SAMPLE_SIZE
    ELSE ""

\* The validation of readFileHeader: the message of the first test that
\* fails, "" where all pass.
HeaderError(h) ==
    IF h.ID /= "RIFF" THEN ERROR_FILE_NOT_RIFF
    ELSE IF h.fmtID /= "fmt " \/ h.fmtSize /= 16 \/ h.compression /= 1
         THEN ERROR_BAD_FORMAT_CHUNK
    ELSE IF h.dataID /= "data" THEN ERROR_BAD_DATA_CHUNK
    ELSE IF h.channels /= 2 THEN ERROR_NOT_STEREO
    ELSE IF h.sampleRate /= 44100 THEN ERROR_INVALID_SAMPLE_RATE
    ELSE IF h.bitsPerSample /= 16 THEN ERROR_INVALID_SAMPLE_SIZE
    ELSE ""

\* failure(): print the message and exit(1).
Failure(message) ==
    /\ pc' = "failed"
    /\ err' = message

NoCommand == [op |-> "", toks |-> <<>>, args |-> <<>>]
NoBuffer  == [left |-> <<>>, right |-> <<>>, size |-> 0, dataSize |-> 0, op |-> ""]

Init ==
    /\ pc = "start"
    /\ err = ""
    /\ header = NoHeader
    /\ stdin = [pattern |-> "", avail |-> 0]
    /\ inPos = 0
    /\ numSamples = 0
    /\ left = <<>>
    /\ right = <<>>
    /\ argi = 0
    /\ last = NoCommand
    /\ prev = NoBuffer
    /\ out = [hdr |-> <<>>, data |-> <<>>]
    /\ oob = {}

ReadFileHeader ==
    /\ pc = "start"
    /\ \/ /\ Failure(ERROR_INSUFFICIENT_MEMORY)
          /\ UNCHANGED header
       \/ \E h \in Headers :
             /\ header' = ReadHeader(h)
             /\ IF HeaderError(h) /= ""
                THEN Failure(HeaderError(h))
                ELSE pc' = "load" /\ err' = err
    /\ UNCHANGED <<stdin, inPos, numSamples, left, right, argi, last, prev, out, oob>>

\* ------------------------------------------------------------- stdin
\* The data region of the input is one of two byte patterns, cut to the
\* number of bytes the file holds.  StreamByte is byte k (0-based).
Patterns == {"ramp", "loud"}

LoudBytes ==
    << 255, 127,   0, 128,     \* left  32767, right -32768
       255, 255,   0,   1,     \* left     -1, right    256
         1,   0, 254, 255,     \* left      1, right     -2
         0,  64,   0, 192,     \* left  16384, right -16384
       127,   0, 128, 255 >>   \* left    127, right   -128

StreamByte(p, k) ==
    IF p = "ramp" THEN (k + 1) % 256 ELSE LoudBytes[(k % Len(LoudBytes)) + 1]

\* How many data bytes the file may hold for a header: from one byte short
\* of the whole samples to one byte past the declared size.
AvailChoices(h) ==
    { a \in 0 .. (h.dataSize + 1) : a >= 4 * (h.dataSize \div 4) - 1 }

\* readByte() | (readByte() << 8) stored in a short, the two calls taken in
\* source order.
ToShort(lo, hi) == Wrap16(lo + 256 * hi)

ReadSoundData ==
    /\ pc = "load"
    /\ \E p \in Patterns : \E a \in AvailChoices(header) :
         LET n == header.dataSize \div 4 IN
         /\ stdin' = [pattern |-> p, avail |-> a]
         /\ numSamples' = n
         /\ \/ /\ Failure(ERROR_INSUFFICIENT_MEMORY)
               /\ UNCHANGED <<left, right, inPos>>
            \/ IF a < 4 * n
               THEN \* readByte meets EOF: the samples read so far are dropped with the process
                    /\ Failure(ERROR_INVALID_FILE_SIZE)
                    /\ inPos' = a
                    /\ UNCHANGED <<left, right>>
               ELSE /\ left'  = [i \in 1..n |-> ToShort(StreamByte(p, 4 * (i - 1)),
                                                      StreamByte(p, 4 * (i - 1) + 1))]
                    /\ right' = [i \in 1..n |-> ToShort(StreamByte(p, 4 * (i - 1) + 2),
                                                      StreamByte(p, 4 * (i - 1) + 3))]
                    /\ inPos' = 4 * n
                    /\ pc' = "args"
                    /\ err' = err
    /\ UNCHANGED <<header, argi, last, prev, out, oob>>

\* ------------------------------------------------------------ stdout
\* writeHeader (wave.c): the header as held in memory.
WriteHeader(h) == <<h>>

\* The four putchar calls of writeToFile for sample i (1-based) of both channels.
SampleBytes(l, r) ==
    << (l % 65536) % 256, (l % 65536) \div 256,
       (r % 65536) % 256, (r % 65536) \div 256 >>

RECURSIVE DataBytes(_, _, _)
DataBytes(l, r, i) ==
    IF i > Len(l) THEN <<>>
    ELSE SampleBytes(l[i], r[i]) \o DataBytes(l, r, i + 1)

\* WriteToFile called from inside the argument loop: the file is written
\* and main goes on to the next argument.
WriteToFileInLoop ==
    /\ pc = "args"
    /\ out = [hdr |-> <<>>, data |-> <<>>]
    /\ out' = [hdr |-> WriteHeader(header), data |-> DataBytes(left, right, 1)]
    /\ UNCHANGED <<pc, err, header, stdin, inPos, numSamples, left, right, argi, last, prev, oob>>

\* main after the argument loop: writeToFile, then return 0.
WriteToFile ==
    /\ pc = "args"
    /\ out' = [hdr |-> WriteHeader(header), data |-> DataBytes(left, right, 1)]
    /\ pc' = "done"
    /\ UNCHANGED <<err, header, stdin, inPos, numSamples, left, right, argi, last, prev, oob>>

\* --------------------------------------------------- argument loop
\* The tokens argv may hold where main expects a flag.
FlagTokens ==
    { <<"-", "r">>, <<"-", "s">>, <<"-", "f">>, <<"-", "o">>, <<"-", "i">>,
      <<"-", "v">>, <<"-", "e">>,
      <<"-", "x">>, <<"r">>, <<"-", "r", "r">>, <<"-">>, <<>> }

\* Operand tokens no transform should take: a sign, two dots, no digit at all.
OddTokens == { <<"-", "1">>, <<"1", ".", ".">>, <<".">>, <<>> }

\* 44100 * .00003 = 1.323, 44100 * .00005 = 2.205, 44100 * .0002 = 8.82
SpeedTokens  == { <<"1">>, <<"2">>, <<".", "5">>, <<"0">> } \cup OddTokens
TimeTokens   == { <<"0">>, <<".", "0", "0", "0", "0", "5">>,
                  <<".", "0", "0", "0", "2">> } \cup OddTokens
VolumeTokens == { <<"1">>, <<"2">>, <<".", "5">> } \cup OddTokens
DelayTokens  == { <<"0">>, <<".", "0", "0", "0", "0", "3">> } \cup { <<"-", "1">>, <<".">> }
ScaleTokens  == { <<"0">>, <<"1">>, <<".", "5">> } \cup { <<"1", ".", ".">> }

\* What an out-of-range read may return.
Garbage == {0, -1}

\* main reads argv[i], finds the flag of action `code`, and has `operands`
\* more tokens to take.
Dispatch(code, operands) ==
    /\ pc = "args"
    /\ argi + 1 + operands <= MaxArgc
    /\ \E arg \in FlagTokens : ParseArgument(arg) = code

\* The command and the state it meets, and main's i past its tokens.
Record(op, toks, args) ==
    /\ last' = [op |-> op, toks |-> toks, args |-> args]
    /\ prev' = [left |-> left, right |-> right,
                size |-> header.size, dataSize |-> header.dataSize, op |-> last.op]
    /\ argi' = argi + 1 + Len(toks)

\* parseArgument meets a token that is no flag.
UsageError ==
    /\ Dispatch(-1, 0)
    /\ Failure(ERROR_COMMAND_LINE_USAGE)
    /\ Record("?", <<>>, <<>>)
    /\ UNCHANGED <<header, stdin, inPos, numSamples, left, right, out, oob>>

\* The command line ends after a flag that takes an operand: argv[++i] is
\* the NULL that ends argv, and parseDouble reads through it.
MissingOperand ==
    /\ \E code \in {1, 3, 4, 5, 6} : Dispatch(code, 0)
    /\ pc' = "crashed"
    /\ Record("NULL", <<>>, <<>>)
    /\ UNCHANGED <<err, header, stdin, inPos, numSamples, left, right, out, oob>>

\* ----------------------------------------------------------- reverse
Swap(s, a, b) == [s EXCEPT ![a] = s[b], ![b] = s[a]]

\* ReverseLoop running over the whole channel instead of half of it.
RECURSIVE ReverseLoopFull(_, _)
ReverseLoopFull(s, i) ==
    IF i < Len(s)
    THEN ReverseLoopFull(Swap(s, i + 1, Len(s) - i), i + 1)
    ELSE s

\* The loop of actionReverse on one channel, from iteration i on.
RECURSIVE ReverseLoop(_, _)
ReverseLoop(s, i) ==
    IF i < Len(s) \div 2
    THEN ReverseLoop(Swap(s, i + 1, Len(s) - i), i + 1)
    ELSE s

ActionReverse ==
    /\ Dispatch(0, 0)
    /\ left' = ReverseLoop(left, 0)
    /\ right' = ReverseLoop(right, 0)
    /\ Record("r", <<>>, <<>>)
    /\ UNCHANGED <<pc, err, header, stdin, inPos, numSamples, out, oob>>

\* ------------------------------------------------------ speed change
\* (int) (numSamples / factor)
SpeedLength(n, factor) == Trunc(n * factor.den, factor.num)

\* SpeedIndex rounding to the nearest index instead of truncating.
SpeedIndexNearest(i, factor) == Trunc(2 * i * factor.num + factor.den, 2 * factor.den)

\* (int) (i * factor)
SpeedIndex(i, factor) == Trunc(i * factor.num, factor.den)

\* The copy loop on one channel; g is what a read past the end returns.
SpeedCopy(old, length, factor, g) ==
    [k \in 1..length |->
        LET j == SpeedIndex(k - 1, factor)
        IN IF j < Len(old) THEN old[j + 1] ELSE g]

SpeedOutOfRange(n, length, factor) ==
    \E i \in 0..(length - 1) : SpeedIndex(i, factor) >= n

ActionChangeSpeed ==
    /\ Dispatch(1, 1)
    /\ \E tok \in SpeedTokens :
         LET factor == ParseDouble(tok) IN
         /\ Record("s", <<tok>>, <<factor>>)
         /\ IF factor.num <= 0
            THEN /\ Failure(ERROR_INVALID_SPEED)
                 /\ UNCHANGED <<header, numSamples, left, right, oob>>
            ELSE LET length == SpeedLength(numSamples, factor) IN
                 /\ length <= MaxSamples
                 /\ \/ /\ Failure(ERROR_INSUFFICIENT_MEMORY)
                       /\ UNCHANGED <<header, numSamples, left, right, oob>>
                    \/ \E g \in Garbage :
                       /\ left' = SpeedCopy(left, length, factor, g)
                       /\ right' = SpeedCopy(right, length, factor, g)
                       /\ oob' = IF SpeedOutOfRange(numSamples, length, factor)
                                 THEN oob \cup {"s"} ELSE oob
                       /\ numSamples' = length
                       /\ header' = [header EXCEPT !.size = HeaderSize + 4 * length,
                                                   !.dataSize = 4 * length]
                       /\ UNCHANGED <<pc, err>>
    /\ UNCHANGED <<stdin, inPos, out>>

\* ----------------------------------------------------- flip channels
ActionFlipChannels ==
    /\ Dispatch(2, 0)
    /\ left' = right
    /\ right' = left
    /\ Record("f", <<>>, <<>>)
    /\ UNCHANGED <<pc, err, header, stdin, inPos, numSamples, out, oob>>

\* -------------------------------------------------------------- fades
\* (int) (sampleRate * duration)
FadeSamples(rate, duration) == Trunc(rate * duration.num, duration.den)

\* actionFadeOut on one channel: the loop writes (s + (N - n))[i] for i in
\* [0, n); the element at C index idx is written at i = idx - (N - n) with
\* factor 1 - i/n.  Indices outside [0, N) are not part of the buffer.
FadeOutBuf(s, n) ==
    [k \in 1..Len(s) |->
        LET i == (k - 1) - (Len(s) - n)
        IN IF i >= 0 THEN Trunc(s[k] * (n - i) * (n - i), n * n) ELSE s[k]]

\* actionFadeIn on one channel: s[i] for i in [0, n), factor i/n.
FadeInBuf(s, n) ==
    [k \in 1..Len(s) |->
        LET i == k - 1
        IN IF i < n THEN Trunc(s[k] * i * i, n * n) ELSE s[k]]

\* The C indices the fade-out loop touches, and the fade-in loop.
FadeOutIndices(N, n) == { (N - n) + i : i \in 0..(n - 1) }
FadeInIndices(N, n) == 0..(n - 1)

\* A loop that wrote outside the allocation: the process dies of it or
\* goes on with the samples it wrote inside.
AfterWrite(op, outside) ==
    /\ oob' = IF outside THEN oob \cup {op} ELSE oob
    /\ err' = err
    /\ \/ pc' = pc
       \/ outside /\ pc' = "crashed"

ActionFadeOut ==
    /\ Dispatch(3, 1)
    /\ \E tok \in TimeTokens :
         LET duration == ParseDouble(tok) IN
         /\ Record("o", <<tok>>, <<duration>>)
         /\ IF duration.num < 0
            THEN /\ Failure(ERROR_INVALID_TIME)
                 /\ UNCHANGED <<left, right, oob>>
            ELSE LET n == FadeSamples(header.sampleRate, duration) IN
                 /\ left' = FadeOutBuf(left, n)
                 /\ right' = FadeOutBuf(right, n)
                 /\ AfterWrite("o", \E idx \in FadeOutIndices(numSamples, n) :
                                       idx < 0 \/ idx >= numSamples)
    /\ UNCHANGED <<header, stdin, inPos, numSamples, out>>

ActionFadeIn ==
    /\ Dispatch(4, 1)
    /\ \E tok \in TimeTokens :
         LET duration == ParseDouble(tok) IN
         /\ Record("i", <<tok>>, <<duration>>)
         /\ IF duration.num < 0
            THEN /\ Failure(ERROR_INVALID_TIME)
                 /\ UNCHANGED <<left, right, oob>>
            ELSE LET n == FadeSamples(header.sampleRate, duration) IN
                 /\ left' = FadeInBuf(left, n)
                 /\ right' = FadeInBuf(right, n)
                 /\ AfterWrite("i", \E idx \in FadeInIndices(numSamples, n) :
                                       idx < 0 \/ idx >= numSamples)
    /\ UNCHANGED <<header, stdin, inPos, numSamples, out>>

\* ------------------------------------------------------------- volume
\* scaleSample: (int) (sample * scale), then clamped to [SHRT_MIN, SHRT_MAX].
ScaleSample(sample, scale) ==
    LET temp == Trunc(sample * scale.num, scale.den)
    IN IF temp < SHRT_MIN THEN SHRT_MIN
       ELSE IF temp > SHRT_MAX THEN SHRT_MAX
       ELSE temp

VolumeBuf(s, scale) == [k \in 1..Len(s) |-> ScaleSample(s[k], scale)]

ActionVolume ==
    /\ Dispatch(5, 1)
    /\ \E tok \in VolumeTokens :
         LET scale == ParseDouble(tok) IN
         /\ Record("v", <<tok>>, <<scale>>)
         /\ IF scale.num < 0
            THEN /\ Failure(ERROR_INVALID_VOLUME)
                 /\ UNCHANGED <<left, right>>
            ELSE /\ left' = VolumeBuf(left, scale)
                 /\ right' = VolumeBuf(right, scale)
                 /\ UNCHANGED <<pc, err>>
    /\ UNCHANGED <<header, stdin, inPos, numSamples, out, oob>>

\* --------------------------------------------------------------- echo
\* EchoBuf adding the echo from i = n + 1 on instead of from i = n.
EchoBufLate(old, n, scale) ==
    [k \in 1..(Len(old) + n) |->
        LET base == IF k <= Len(old) THEN old[k] ELSE 0
        IN IF k - 1 > n
           THEN Wrap16(base + ScaleSample(old[k - n], scale))
           ELSE base]

\* The loop of actionEcho on one channel: element i is the old sample (0
\* past the old end), and from i = n on the scaled sample n places back is
\* added to it in a short.
EchoBuf(old, n, scale) ==
    [k \in 1..(Len(old) + n) |->
        LET base == IF k <= Len(old) THEN old[k] ELSE 0
        IN IF k - 1 >= n
           THEN Wrap16(base + ScaleSample(old[k - n], scale))
           ELSE base]

\* main passes parseDouble(argv[++i]), parseDouble(argv[++i]): the two
\* increments are unsequenced, so either token may become the delay.
ActionEcho ==
    /\ Dispatch(6, 2)
    /\ \E tok1 \in DelayTokens : \E tok2 \in ScaleTokens : \E firstIsDelay \in BOOLEAN :
         LET delay == ParseDouble(IF firstIsDelay THEN tok1 ELSE tok2)
             scale == ParseDouble(IF firstIsDelay THEN tok2 ELSE tok1)
         IN
         /\ Record("e", <<tok1, tok2>>, <<delay, scale>>)
         /\ IF delay.num < 0 \/ scale.num < 0
            THEN /\ Failure(ERROR_INVALID_ECHO)
                 /\ UNCHANGED <<header, numSamples, left, right>>
            ELSE LET n == FadeSamples(header.sampleRate, delay) IN
                 /\ numSamples + n <= MaxSamples
                 /\ \/ /\ Failure(ERROR_INSUFFICIENT_MEMORY)
                       /\ UNCHANGED <<header, numSamples, left, right>>
                    \/ /\ left' = EchoBuf(left, n, scale)
                       /\ right' = EchoBuf(right, n, scale)
                       /\ numSamples' = numSamples + n
                       /\ header' = [header EXCEPT !.size = @ + 4 * n,
                                                   !.dataSize = @ + 4 * n]
                       /\ UNCHANGED <<pc, err>>
    /\ UNCHANGED <<stdin, inPos, out, oob>>

\* ------------------------------------------------------ specification
Next ==
    \/ ReadFileHeader
    \/ ReadSoundData
    \/ UsageError
    \/ MissingOperand
    \/ ActionReverse
    \/ ActionChangeSpeed
    \/ ActionFlipChannels
    \/ ActionFadeOut
    \/ ActionFadeIn
    \/ ActionVolume
    \/ ActionEcho
    \/ WriteToFile

Spec == Init /\ [][Next]_vars

\* ------------------------------------------------------------ claims
\* The last command ran to its end and main went on.
Completed(op) == last.op = op /\ pc \in {"args", "done"}

NoOutput == [hdr |-> <<>>, data |-> <<>>]

\* The whole data region of the input file, byte by byte.
InputData == [k \in 1..stdin.avail |-> StreamByte(stdin.pattern, k - 1)]

\* A non-negative decimal number with at most one decimal point.
IsDecimal(tok) ==
    /\ \A k \in 1..Len(tok) : IsDigit(tok[k]) \/ tok[k] = "."
    /\ Cardinality({ k \in 1..Len(tok) : tok[k] = "." }) <= 1
    /\ \E k \in 1..Len(tok) : IsDigit(tok[k])

ParameterErrors ==
    { ERROR_INVALID_SPEED, ERROR_INVALID_TIME, ERROR_INVALID_VOLUME, ERROR_INVALID_ECHO,
      ERROR_COMMAND_LINE_USAGE }

\* n = floor(rate * x) for the exact value x = num / den.
IsFloorOfRate(n, x) ==
    /\ n >= 0
    /\ n * x.den <= SampleRate * x.num
    /\ SampleRate * x.num < (n + 1) * x.den

\* C1: after a speed change or an echo the header's data size is
\* 4 * numSamples and its size is the header's own size plus 4 * numSamples.
C1_HeaderSizesRecomputed ==
    (Completed("s") \/ Completed("e")) =>
        /\ header.dataSize = 4 * numSamples
        /\ header.size = HeaderSize + 4 * numSamples

\* C2 as stated: an echo lengthens the buffer by floor(sampleRate * delay)
\* samples, and with delay 0 leaves length and content as they were.
C2_EchoZeroDelayIdentity ==
    Completed("e") =>
        /\ IsFloorOfRate(numSamples - Len(prev.left), last.args[1])
        /\ last.args[1].num = 0 => left = prev.left /\ right = prev.right

\* C2 amended: an echo lengthens the buffer by floor(sampleRate * delay)
\* samples; with delay 0 the length stays and every sample s becomes
\* s + clamp((int)(s * scale)) taken as a short.
C2_EchoZeroDelayAddsScaled ==
    Completed("e") =>
        LET delay == last.args[1]
            scale == last.args[2]
            echoed(x) == LET t == Trunc(x * scale.num, scale.den)
                         IN IF t < -32768 THEN -32768 ELSE IF t > 32767 THEN 32767 ELSE t
        IN /\ IsFloorOfRate(numSamples - Len(prev.left), delay)
           /\ Len(left) = numSamples /\ Len(right) = numSamples
           /\ delay.num = 0 =>
                /\ numSamples = Len(prev.left)
                /\ \A k \in 1..numSamples :
                     /\ left[k] = Wrap16(prev.left[k] + echoed(prev.left[k]))
                     /\ right[k] = Wrap16(prev.right[k] + echoed(prev.right[k]))

\* An echo of delay 0 and scale 1 that changed the samples.
C2_Witness ==
    /\ Completed("e")
    /\ last.args[1].num = 0
    /\ last.args[2] = [num |-> 1, den |-> 1]
    /\ numSamples = MaxSamples
    /\ left /= prev.left

\* C3: an operand that is no decimal number ends the run in a parameter
\* error with buffer and header as the transform met them.
C3_BadOperandRejected ==
    (last.op \in {"s", "o", "i", "v", "e"}
        /\ \E k \in 1..Len(last.toks) : ~IsDecimal(last.toks[k])) =>
        /\ pc = "failed"
        /\ err \in ParameterErrors
        /\ left = prev.left /\ right = prev.right
        /\ header.size = prev.size /\ header.dataSize = prev.dataSize

\* C4: with no transform on the command line the output is the input, byte
\* for byte: the header as read, then every data byte the file holds.
C4_RoundTrip ==
    (pc = "done" /\ argi = 0) =>
        /\ out.hdr = <<header>>
        /\ out.data = InputData

\* C5: readFileHeader reports the error of the first check that fails, in
\* the order RIFF, format chunk, data chunk, stereo, sample rate, sample
\* size, and then no data byte has been read; a header passing all six is
\* not refused.
C5_FirstFailedCheck ==
    header /= NoHeader =>
        LET failed == << header.ID /= "RIFF",
                         header.fmtID /= "fmt " \/ header.fmtSize /= 16
                             \/ header.compression /= 1,
                         header.dataID /= "data",
                         header.channels /= 2,
                         header.sampleRate /= 44100,
                         header.bitsPerSample /= 16 >>
            message == << ERROR_FILE_NOT_RIFF, ERROR_BAD_FORMAT_CHUNK, ERROR_BAD_DATA_CHUNK,
                          ERROR_NOT_STEREO, ERROR_INVALID_SAMPLE_RATE,
                          ERROR_INVALID_SAMPLE_SIZE >>
        IN /\ \A k \in 1..6 :
                (failed[k] /\ \A j \in 1..(k - 1) : ~failed[j]) =>
                    /\ pc = "failed"
                    /\ err = message[k]
                    /\ inPos = 0 /\ stdin.pattern = ""
           /\ (\A k \in 1..6 : ~failed[k]) => \A k \in 1..6 : err /= message[k]

\* A header refused for its format chunk size although channel count and
\* sample size are wrong too.
C5_Witness ==
    /\ pc = "failed"
    /\ err = ERROR_BAD_FORMAT_CHUNK
    /\ header.fmtID = "fmt " /\ header.compression = 1 /\ header.fmtSize = 18
    /\ header.channels = 1 /\ header.bitsPerSample = 8

\* C6: a run that failed has written nothing, and whatever is on stdout
\* was written after the whole command line had been carried out.
C6_NoPartialOutput ==
    /\ pc \in {"failed", "crashed"} => out = NoOutput
    /\ out /= NoOutput => pc = "done" /\ err = ""

\* A run whose first transform succeeded and whose second was refused.
C6_Witness ==
    /\ pc = "failed"
    /\ err = ERROR_INVALID_VOLUME
    /\ prev.op = "s"
    /\ numSamples > 0

\* C7: a load that succeeds has taken exactly dataChunk.size bytes, and a
\* file holding fewer data bytes than that is refused for its size.
C7_LoadTakesDeclaredSize ==
    (stdin.pattern /= "" /\ last = NoCommand /\ err /= ERROR_INSUFFICIENT_MEMORY) =>
        /\ pc \in {"args", "done"} => inPos = header.dataSize
        /\ stdin.avail < header.dataSize =>
              pc = "failed" /\ err = ERROR_INVALID_FILE_SIZE

\* C8: a reverse puts the sample of index i at N - 1 - i in both channels
\* (the middle one of an odd N stays) and leaves numSamples and the header
\* alone; a reverse right after a reverse gives back the buffer the first
\* one met.
C8_ReverseInvolution ==
    [][(last'.op = "r" /\ argi' = argi + 1) =>
          /\ numSamples' = numSamples /\ header' = header
          /\ Len(left') = numSamples /\ Len(right') = numSamples
          /\ \A k \in 1..numSamples :
                /\ left'[k] = left[numSamples + 1 - k]
                /\ right'[k] = right[numSamples + 1 - k]
          /\ last.op = "r" => left' = prev.left /\ right' = prev.right]_vars

\* Two reverses in a row on a buffer of odd length that is no palindrome.
C8_Witness ==
    /\ last.op = "r" /\ prev.op = "r"
    /\ numSamples = 3
    /\ left /= prev.left

C10_FadeInBounds ==
    /\ "o" \notin oob /\ "i" \notin oob
    /\ (last.op \in {"o", "i"} /\ last.args[1].num = 0) =>
          left = prev.left /\ right = prev.right

====
